---- MODULE Spec2Model ----
(***************************************************************************)
(* Model of the CFG class of src/cfg_parser_base_.py ("base") and of       *)
(* src/cfgParser.py ("main"): the grammar mutators, the loader, the        *)
(* membership test parse_string, the derivation tracers                    *)
(* get_derivation_steps and the parse tree builders generate_parse_tree.   *)
(*                                                                         *)
(* A Python str is a sequence of one-character strings, so that join,      *)
(* split, replace, count and startswith are computed on characters: the    *)
(* symbol 'epsilon' is the 7-character string, a variable is a             *)
(* 1-character string.  A Python list is a sequence, a set is a set, a     *)
(* dict is a function whose DOMAIN is its key set.                         *)
(***************************************************************************)
EXTENDS Integers, Sequences, FiniteSets, TLC

VARIABLES
    impl,             \* which file's CFG class the object is: "base" | "main"
    variables,        \* self.variables
    terminals,        \* self.terminals
    productions,      \* self.productions
    start_symbol,     \* self.start_symbol (None before set_start_symbol)
    parse_tree_edges, \* self.parse_tree_edges (base only)
    pc,               \* position of the driver / of the running method
    call,             \* arguments and locals of the running method
    stack,            \* frames of the recursive derive() of base
    ret,              \* outcome of the last finished method call
    last,             \* outcome of the call finished before that one
    dot,              \* graph built by the last generate_parse_tree
    other,            \* the thread that is not running: its pc, call, stack,
                      \* ret and last ("idle" before it is started)
    switches          \* thread switches made so far

vars == <<impl, variables, terminals, productions, start_symbol,
          parse_tree_edges, pc, call, stack, ret, last, dot, other, switches>>

cfgVars == <<impl, variables, terminals, productions, start_symbol>>

----------------------------------------------------------------------------
(* Bounds of the model *)

\* longest target string enumerated over TargetAlphabet
MaxLen == 2

\* frames of derive() allowed on the stack before the interpreter's
\* recursion limit is taken to be hit (RecursionError)
MaxDepth == 5

\* iterations of the greedy while-loop of main's get_derivation_steps
\* followed before the call is taken not to return
MaxIter == 6

----------------------------------------------------------------------------
(* Python values *)

\* None is no str: its one element is not a character
None == <<"None">>

U(c) == <<c>>                      \* the 1-character str c

epsilon == <<"e", "p", "s", "i", "l", "o", "n">>

space == " "

UpperCase == {"A", "B", "C", "D", "E", "F", "G", "H", "I", "J", "K", "L", "M",
              "N", "O", "P", "Q", "R", "S", "T", "U", "V", "W", "X", "Y", "Z"}

LowerCase == {"a", "b", "c", "d", "e", "f", "g", "h", "i", "j", "k", "l", "m",
              "n", "o", "p", "q", "r", "s", "t", "u", "v", "w", "x", "y", "z"}

Digits == {"0", "1", "2", "3", "4", "5", "6", "7", "8", "9"}

Punctuation == {"+", "-", "*", "/", "(", ")", "{", "}", "[", "]", ":", ";",
                ".", ",", ">", "<", "=", "!"}

\* list(s): the list of the characters of s, each a 1-character str
list(s) == [i \in DOMAIN s |-> U(s[i])]

\* sep.join(parts): parts is a list of str, sep a str
RECURSIVE join(_, _)
join(sep, parts) ==
    IF parts = <<>> THEN <<>>
    ELSE IF Len(parts) = 1 THEN parts[1]
    ELSE parts[1] \o sep \o join(sep, Tail(parts))

\* s.split(): the maximal runs of non-blank characters of s
RECURSIVE splitFrom(_, _, _)
splitFrom(s, i, cur) ==
    IF i > Len(s) THEN (IF cur = <<>> THEN <<>> ELSE <<cur>>)
    ELSE IF s[i] = space
         THEN (IF cur = <<>> THEN <<>> ELSE <<cur>>) \o splitFrom(s, i + 1, <<>>)
         ELSE splitFrom(s, i + 1, Append(cur, s[i]))

split(s) == splitFrom(s, 1, <<>>)

\* s.count(c) for a 1-character c
count(s, c) == Cardinality({i \in DOMAIN s : s[i] = c})

\* s.startswith(p)
startswith(s, p) == Len(p) <= Len(s) /\ SubSeq(s, 1, Len(p)) = p

\* s.replace(old, new) for a 1-character old: every occurrence is replaced
RECURSIVE replace(_, _, _)
replace(s, old, new) ==
    IF s = <<>> THEN <<>>
    ELSE (IF Head(s) = old THEN new ELSE <<Head(s)>>) \o replace(Tail(s), old, new)

\* the elements of a list that satisfy a membership test, in order
RECURSIVE filterIn(_, _)
filterIn(l, set) ==
    IF l = <<>> THEN <<>>
    ELSE (IF Head(l) \in set THEN <<Head(l)>> ELSE <<>>) \o filterIn(Tail(l), set)

\* d.get(k, []) of a dict of lists
get(d, k) == IF k \in DOMAIN d THEN d[k] ELSE <<>>

\* x in l, for a list l
inList(x, l) == \E i \in DOMAIN l : l[i] = x

----------------------------------------------------------------------------
(* The grammar mutators; a CFG value is the record of the four fields *)

EmptyCFG == [variables |-> {}, terminals |-> {}, productions |-> <<>>,
             start_symbol |-> None]

validate_variable(var) == Len(var) = 1 /\ var[1] \in UpperCase

validate_terminal(im, term) ==
    /\ Len(term) = 1
    /\ term[1] \in LowerCase \cup Digits \cup (IF im = "main" THEN Punctuation ELSE {})

validate_production(im, head, body) ==
    /\ validate_variable(head)
    /\ \A i \in DOMAIN body :
          body[i] = epsilon \/ validate_variable(body[i]) \/ validate_terminal(im, body[i])

\* lines 29-30 (cfgParser.py lines 32-33): the key of a variable in
\* productions, created with no body unless it is there already
reset_bodies(prods, var) ==
    [X \in DOMAIN prods \cup {var} |-> IF X = var THEN <<>> ELSE prods[X]]

create_if_missing(prods, var) ==
    IF var \in DOMAIN prods THEN prods ELSE prods @@ (var :> <<>>)

\* each mutator yields the new CFG and the returned boolean
add_variable_unchecked(g, var) ==
    [cfg |-> [g EXCEPT !.variables = @ \cup {var},
                       !.productions = create_if_missing(@, var)],
     ok |-> validate_variable(var)]

add_variable(g, var) ==
    IF validate_variable(var)
    THEN [cfg |-> [g EXCEPT !.variables = @ \cup {var},
                            !.productions = create_if_missing(@, var)],
          ok |-> TRUE]
    ELSE [cfg |-> g, ok |-> FALSE]

add_terminal(im, g, term) ==
    IF validate_terminal(im, term)
    THEN [cfg |-> [g EXCEPT !.terminals = @ \cup {term}], ok |-> TRUE]
    ELSE [cfg |-> g, ok |-> FALSE]

add_production(im, g, head, body) ==
    IF validate_production(im, head, body)
    THEN [cfg |-> [g EXCEPT !.productions =
                       LET d == IF head \in DOMAIN @ THEN @ ELSE @ @@ (head :> <<>>)
                       IN  [d EXCEPT ![head] = Append(@, body)]],
          ok |-> TRUE]
    ELSE [cfg |-> g, ok |-> FALSE]

set_start_symbol(g, symbol) ==
    IF validate_variable(symbol) /\ symbol \in g.variables
    THEN [cfg |-> [g EXCEPT !.start_symbol = symbol], ok |-> TRUE]
    ELSE [cfg |-> g, ok |-> FALSE]

----------------------------------------------------------------------------
(* The loader.  A grammar file is the record of its four sections: the     *)
(* lines of VARIABLES and TERMINALS, the (head, body) pairs of the         *)
(* alternatives of PRODUCTIONS in file order, the lines of START.          *)

RECURSIVE loadVariables(_, _)
loadVariables(g, lines) ==
    IF lines = <<>> THEN [cfg |-> g, ok |-> TRUE]
    ELSE LET r == add_variable(g, Head(lines))
         IN  IF r.ok THEN loadVariables(r.cfg, Tail(lines)) ELSE r

RECURSIVE loadTerminals(_, _, _)
loadTerminals(im, g, lines) ==
    IF lines = <<>> THEN [cfg |-> g, ok |-> TRUE]
    ELSE LET r == add_terminal(im, g, Head(lines))
         IN  IF r.ok THEN loadTerminals(im, r.cfg, Tail(lines)) ELSE r

RECURSIVE loadProductions(_, _, _)
loadProductions(im, g, prods) ==
    IF prods = <<>> THEN [cfg |-> g, ok |-> TRUE]
    ELSE LET r == add_production(im, g, Head(prods)[1], Head(prods)[2])
         IN  IF r.ok THEN loadProductions(im, r.cfg, Tail(prods)) ELSE r

RECURSIVE loadStart(_, _)
loadStart(g, lines) ==
    IF lines = <<>> THEN [cfg |-> g, ok |-> TRUE]
    ELSE LET r == set_start_symbol(g, Head(lines))
         IN  IF r.ok THEN loadStart(r.cfg, Tail(lines)) ELSE r

\* the final completeness test of load_from_file / load_from_console
incomplete(g) ==
    \/ g.variables = {}
    \/ g.terminals = {}
    \/ DOMAIN g.productions = {}
    \/ g.start_symbol = None

load_from_file(im, g, f) ==
    LET r1 == loadVariables(g, f.variables)
        r2 == loadTerminals(im, r1.cfg, f.terminals)
        r3 == loadProductions(im, r2.cfg, f.productions)
        r4 == loadStart(r3.cfg, f.start)
    IN  IF ~r1.ok THEN r1
        ELSE IF ~r2.ok THEN r2
        ELSE IF ~r3.ok THEN r3
        ELSE IF ~r4.ok THEN r4
        ELSE [cfg |-> r4.cfg, ok |-> ~incomplete(r4.cfg)]

----------------------------------------------------------------------------
(* The grammar files and the target strings the model is run on *)

File(vs, ts, ps, st) ==
    [variables |-> list(vs), terminals |-> list(ts), productions |-> ps,
     start |-> list(st)]

P(head, body) == <<U(head), list(body)>>       \* head -> body, 1-character symbols
Eps(head) == <<U(head), <<epsilon>> >>         \* head -> epsilon

Files == {
    \* S -> a
    File(<<"S">>, <<"a">>, << P("S", <<"a">>) >>, <<"S">>),
    \* S -> a B c ; B -> b
    File(<<"S", "B">>, <<"a", "b", "c">>,
         << P("S", <<"a", "B", "c">>), P("B", <<"b">>) >>, <<"S">>),
    \* S -> epsilon
    File(<<"S">>, <<"a">>, << Eps("S") >>, <<"S">>),
    \* S -> a S b | epsilon
    File(<<"S">>, <<"a", "b">>, << P("S", <<"a", "S", "b">>), Eps("S") >>, <<"S">>),
    \* S -> epsilon | a S b
    File(<<"S">>, <<"a", "b">>, << Eps("S"), P("S", <<"a", "S", "b">>) >>, <<"S">>),
    \* A -> A | a
    File(<<"A">>, <<"a">>, << P("A", <<"A">>), P("A", <<"a">>) >>, <<"A">>),
    \* S -> A B ; A -> a ; B -> b
    File(<<"S", "A", "B">>, <<"a", "b">>,
         << P("S", <<"A", "B">>), P("A", <<"a">>), P("B", <<"b">>) >>, <<"S">>),
    \* S -> a S | a
    File(<<"S">>, <<"a">>, << P("S", <<"a", "S">>), P("S", <<"a">>) >>, <<"S">>),
    \* S -> A epsilon ; A -> epsilon
    File(<<"S", "A">>, <<"a">>, << <<U("S"), <<U("A"), epsilon>> >>, Eps("A") >>, <<"S">>),
    \* S -> A A ; A -> a
    File(<<"S", "A">>, <<"a">>, << P("S", <<"A", "A">>), P("A", <<"a">>) >>, <<"S">>),
    \* S -> A b | A a ; A -> a
    File(<<"S", "A">>, <<"a", "b">>,
         << P("S", <<"A", "b">>), P("S", <<"A", "a">>), P("A", <<"a">>) >>, <<"S">>),
    \* S -> A | B ; A -> B ; B -> b | epsilon
    File(<<"S", "A", "B">>, <<"b">>,
         << P("S", <<"A">>), P("S", <<"B">>), P("A", <<"B">>), P("B", <<"b">>),
            Eps("B") >>, <<"S">>),
    \* S -> b, with only a declared as a terminal
    File(<<"S">>, <<"a">>, << P("S", <<"b">>) >>, <<"S">>),
    \* variables, terminals and start, no production
    File(<<"S">>, <<"a">>, << >>, <<"S">>),
    \* no START line
    File(<<"S">>, <<"a">>, << P("S", <<"a">>) >>, << >>),
    \* a terminal where a variable is expected
    File(<<"S", "a">>, <<"a">>, << P("S", <<"a">>) >>, <<"S">>)
}

TargetAlphabet == {"a", "b"}

RECURSIVE Words(_)
Words(n) ==
    IF n = 0 THEN {<<>>}
    ELSE LET shorter == Words(n - 1)
         IN  shorter \cup {Append(w, c) : w \in {v \in shorter : Len(v) = n - 1},
                                          c \in TargetAlphabet}

\* targets outside the enumeration that the examples of the spec name
ExtraTargets == {<<"a", "a", "b", "b">>, <<"a", "b", "c">>, <<"a", "a", "b">>, epsilon}

Targets == Words(MaxLen) \cup ExtraTargets

Strategies == {"left", "right"}

----------------------------------------------------------------------------
(* Construction and loading *)

NoCall == [op |-> "none"]

\* the record kept of a finished method call: what was asked, how the call
\* ended (status), what it returned, what it had recorded when it ended and
\* the steps it printed (the lines print("=>", step))
Outcome(op, w, strategy, status, steps, edges, visited, expanded, printed) ==
    [op |-> op, input_string |-> w, strategy |-> strategy, status |-> status,
     steps |-> steps, edges |-> edges, visited |-> visited, expanded |-> expanded,
     printed |-> printed]

NoOutcome == Outcome("none", <<>>, "none", "none", <<>>, <<>>, {}, <<>>, <<>>)

NoDot == [built |-> FALSE, nodes |-> <<>>, edges |-> <<>>]

\* what a thread keeps while another one runs
Context(id, p, c, s, r, l) ==
    [id |-> id, pc |-> p, call |-> c, stack |-> s, ret |-> r, last |-> l]

\* CFG.__init__
Init ==
    /\ impl \in {"base", "main"}
    /\ variables = {}
    /\ terminals = {}
    /\ productions = <<>>
    /\ start_symbol = None
    /\ parse_tree_edges = <<>>
    /\ pc = "new"
    /\ call = NoCall
    /\ stack = <<>>
    /\ ret = NoOutcome
    /\ last = NoOutcome
    /\ dot = NoDot
    /\ other = Context(2, "idle", NoCall, <<>>, NoOutcome, NoOutcome)
    /\ switches = 0

self == [variables |-> variables, terminals |-> terminals,
         productions |-> productions, start_symbol |-> start_symbol]

\* main(): cfg.load_from_file(filename); queries follow only a True return
LoadFromFile(f) ==
    /\ pc = "new"
    /\ LET r == load_from_file(impl, self, f)
       IN  /\ variables' = r.cfg.variables
           /\ terminals' = r.cfg.terminals
           /\ productions' = r.cfg.productions
           /\ start_symbol' = r.cfg.start_symbol
           /\ pc' = IF r.ok THEN "ready" ELSE "failed"
    /\ UNCHANGED <<impl, parse_tree_edges, call, stack, ret, last, dot, other, switches>>

----------------------------------------------------------------------------
(* get_derivation_steps of src/cfg_parser_base_.py.  The recursion of the  *)
(* nested derive() is run on an explicit stack: a frame holds the          *)
(* arguments current_symbols and parent_node and the loop position (the    *)
(* index i of the chosen variable, the index k of the next production).    *)
(* remaining_input is list(input_string) in every call and                 *)
(* derivation_path is the list steps itself, as passed at the top call.    *)

Frame(current_symbols, parent_node) ==
    [current_symbols |-> current_symbols, parent_node |-> parent_node,
     at |-> "enter", i |-> 0, k |-> 0]

\* enumerate / reversed(range(len)): the index of the variable the chosen
\* strategy expands, 0 when the form holds no variable
VarIndex(strategy, current_symbols) ==
    LET idx == {i \in DOMAIN current_symbols : current_symbols[i] \in variables}
    IN  IF idx = {} THEN 0
        ELSE IF strategy = "left"
             THEN CHOOSE i \in idx : \A j \in idx : i <= j
             ELSE CHOOSE i \in idx : \A j \in idx : i >= j

\* current_symbols[:i] + (prod if prod != ['epsilon'] else []) + current_symbols[i+1:]
Substitute(current_symbols, i, prod) ==
    SubSeq(current_symbols, 1, i - 1)
        \o (IF prod # <<epsilon>> THEN prod ELSE <<>>)
        \o SubSeq(current_symbols, i + 1, Len(current_symbols))

\* for child in prod: self.parse_tree_edges.append((parent_node, child))
EdgesOf(parent_node, prod) == [j \in DOMAIN prod |-> <<parent_node, prod[j]>>]

\* the method ends: return value or exception, and the driver goes on
\* (ret is cleared and moved to last when a method is entered); lines
\* 233-239 print the steps that are returned and no step otherwise
Finish(status, steps) ==
    /\ ret' = Outcome(call.op, call.input_string, call.strategy, status, steps,
                      parse_tree_edges', call'.visited_states, call'.expanded, steps)
    /\ last' = last
    /\ stack' = <<>>
    /\ pc' = "ready"

\* line 174: self.parse_tree_edges = []
edges_kept(old_edges) == old_edges

reset_edges(old_edges) == <<>>

\* line 178: if current_state in visited_states
never_visited(current_state, visited_states) == FALSE

already_visited(current_state, visited_states) == current_state \in visited_states

\* lines 172-174 and 230-232: the locals are created, the edges are reset
\* and derive(initial, list(input_string), steps, self.start_symbol) is called
GetDerivationStepsBase(w, strategy) ==
    /\ pc = "ready"
    /\ impl = "base"
    /\ call' = [op |-> "get_derivation_steps", input_string |-> w,
                strategy |-> strategy,
                steps |-> << join(U(space), <<start_symbol>>) >>,
                visited_states |-> {}, expanded |-> <<>>]
    /\ parse_tree_edges' = reset_edges(parse_tree_edges)
    /\ stack' = << Frame(<<start_symbol>>, start_symbol) >>
    /\ pc' = "derive"
    /\ ret' = NoOutcome
    /\ last' = ret
    /\ dot' = NoDot
    /\ UNCHANGED <<cfgVars, other, switches>>

\* line 201 (221): derivation_path.pop()
pop_skipped(derivation_path) == derivation_path

pop(derivation_path) == SubSeq(derivation_path, 1, Len(derivation_path) - 1)

\* derive() returns False to its caller: the caller pops derivation_path
\* and goes on with its next production; the top call returning False makes
\* get_derivation_steps return None
ReturnFalse(visited) ==
    /\ parse_tree_edges' = parse_tree_edges
    /\ IF Len(stack) = 1
       THEN /\ call' = [call EXCEPT !.visited_states = visited]
            /\ Finish("None", <<>>)
       ELSE /\ call' = [call EXCEPT !.visited_states = visited,
                                    !.steps = pop(@)]
            /\ stack' = [SubSeq(stack, 1, Len(stack) - 1)
                            EXCEPT ![Len(stack) - 1].k = @ + 1]
            /\ UNCHANGED <<pc, ret, last>>

\* derive() returns True: every caller returns True in turn and
\* get_derivation_steps returns steps
ReturnTrue(visited, steps) ==
    /\ parse_tree_edges' = parse_tree_edges
    /\ call' = [call EXCEPT !.visited_states = visited, !.steps = steps]
    /\ Finish("steps", steps)

\* line 181: visited_states.add(current_state)
add_skipped(visited_states, current_state) == visited_states

add(visited_states, current_state) == visited_states \cup {current_state}

\* lines 177-191 and 203-211, 223-228: entry of derive() up to the
\* production loop
DeriveEnter ==
    /\ pc = "derive"
    /\ stack # <<>>
    /\ LET top == stack[Len(stack)]
           current_symbols == top.current_symbols
           remaining_input == list(call.input_string)
           current_state == <<join(U(space), current_symbols),
                              Len(call.input_string) - Len(remaining_input)>>
           visited == add(call.visited_states, current_state)
           i == VarIndex(call.strategy, current_symbols)
       IN  /\ top.at = "enter"
           /\ IF already_visited(current_state, call.visited_states)
              THEN ReturnFalse(call.visited_states)
              ELSE IF current_symbols = <<>> /\ remaining_input = <<>>
              THEN ReturnTrue(visited, Append(call.steps, join(U(space), call.steps)))
              ELSE IF current_symbols = <<>>
                      \/ (remaining_input = <<>> /\ current_symbols # <<epsilon>>)
              THEN ReturnFalse(visited)
              ELSE IF call.strategy \notin {"left", "right"}
              THEN ReturnFalse(visited)
              ELSE IF i # 0
              THEN /\ stack' = [stack EXCEPT ![Len(stack)] =
                                   [top EXCEPT !.at = "loop", !.i = i, !.k = 1]]
                   /\ call' = [call EXCEPT !.visited_states = visited,
                                           !.expanded = Append(@, current_state)]
                   /\ UNCHANGED <<parse_tree_edges, pc, ret, last>>
              ELSE IF join(<<>>, current_symbols) = call.input_string
              THEN ReturnTrue(visited, Append(call.steps, join(U(space), current_symbols)))
              ELSE ReturnFalse(visited)
    /\ UNCHANGED <<cfgVars, dot, other, switches>>

\* lines 192-202 and 212-222: one turn of "for prod in self.productions[sym]"
DeriveTry ==
    /\ pc = "derive"
    /\ stack # <<>>
    /\ LET top == stack[Len(stack)]
           sym == top.current_symbols[top.i]
       IN  /\ top.at = "loop"
           /\ IF sym \notin DOMAIN productions
              THEN /\ UNCHANGED <<call, parse_tree_edges>>
                   /\ Finish("KeyError", <<>>)
              ELSE IF top.k > Len(productions[sym])
              THEN ReturnFalse(call.visited_states)
              ELSE LET prod == productions[sym][top.k]
                       new_symbols == Substitute(top.current_symbols, top.i, prod)
                   IN  /\ call' = [call EXCEPT !.steps =
                                       Append(@, join(U(space), new_symbols))]
                       /\ parse_tree_edges' =
                             IF top.parent_node \notin {None, <<>>}
                             THEN parse_tree_edges \o EdgesOf(top.parent_node, prod)
                             ELSE parse_tree_edges
                       /\ IF Len(stack) < MaxDepth
                          THEN /\ stack' = Append(stack, Frame(new_symbols, sym))
                               /\ UNCHANGED <<pc, ret, last>>
                          ELSE Finish("RecursionError", <<>>)
    /\ UNCHANGED <<cfgVars, dot, other, switches>>

----------------------------------------------------------------------------
(* parse_string of src/cfgParser.py *)

\* lines 180-188 (and 286-292, 395-401): the hard-coded test for the
\* grammar S -> a S b | epsilon
is_anbn_grammar(g) ==
    /\ g.start_symbol = U("S")
    /\ Len(get(g.productions, U("S"))) = 2
    /\ inList(<<epsilon>>, g.productions[U("S")])
    /\ \E k \in DOMAIN g.productions[U("S")] :
          LET p == g.productions[U("S")][k]
          IN  Len(p) = 3 /\ p[1] = U("a") /\ p[2] = U("S") /\ p[3] = U("b")

\* lines 193-208: the character-counting answer
anbn_fast_path(input_string) ==
    LET a_count == count(input_string, "a")
        b_count == count(input_string, "b")
    IN  IF a_count + b_count # Len(input_string) THEN FALSE
        ELSE IF a_count = b_count
        THEN ~ \E i \in DOMAIN input_string :
                   /\ input_string[i] = "a"
                   /\ \E j \in 1..(i - 1) : input_string[j] = "b"
        ELSE FALSE

\* the order in which "for symbol in self.variables" yields the set; it
\* only decides the order of the queue, not which states are queued
RECURSIVE SetOrder(_)
SetOrder(set) ==
    IF set = {} THEN <<>>
    ELSE LET x == CHOOSE y \in set : TRUE IN <<x>> \o SetOrder(set \ {x})

\* lines 242-244: one queue entry per production of every variable
RECURSIVE RestartEntries(_, _, _)
RestartEntries(g, syms, remaining) ==
    IF syms = <<>> THEN <<>>
    ELSE [k \in DOMAIN get(g.productions, Head(syms)) |-> <<Head(syms), remaining>>]
            \o RestartEntries(g, Tail(syms), remaining)

\* lines 248-266: the loop over the productions of current_symbol, from
\* production k on; it yields whether it returned True and what it queued
RECURSIVE ProductionLoop(_, _, _, _, _)
ProductionLoop(g, prods, k, remaining, queued) ==
    IF k > Len(prods) THEN [hit |-> FALSE, queued |-> queued]
    ELSE LET production == prods[k]
             first_symbol == production[1]
             rest_symbols == IF Len(production) > 1 THEN Tail(production) ELSE << <<>> >>
         IN  IF production = <<epsilon>>
             THEN ProductionLoop(g, prods, k + 1, remaining,
                                 Append(queued, << <<>>, remaining >>))
             ELSE IF first_symbol \in g.terminals
             THEN IF remaining # <<>> /\ remaining[1] = first_symbol
                  THEN IF rest_symbols = << <<>> >>
                       THEN IF Len(remaining) = 1
                            THEN [hit |-> TRUE, queued |-> queued]
                            ELSE ProductionLoop(g, prods, k + 1, remaining,
                                     Append(queued, << <<>>, Tail(remaining) >>))
                       ELSE ProductionLoop(g, prods, k + 1, remaining,
                                Append(queued, <<rest_symbols[1], Tail(remaining)>>))
                  ELSE ProductionLoop(g, prods, k + 1, remaining, queued)
             ELSE ProductionLoop(g, prods, k + 1, remaining,
                                 Append(queued, <<first_symbol, remaining>>))

\* lines 221-222: if state_key in visited: continue
seen_never(state_key, visited) == FALSE

seen_before(state_key, visited) == state_key \in visited

\* lines 218-266: one turn of "while queue", for a non-empty queue; it
\* yields whether True was returned, the queue and the visited set it
\* leaves, and the states whose productions were expanded so far
SearchStep(g, queue, visited, expanded) ==
    LET current_symbol == Head(queue)[1]
        remaining_input == Head(queue)[2]
        state_key == Head(queue)
        rest == Tail(queue)
        seen == visited \cup {state_key}
        True == [hit |-> TRUE, queue |-> rest, visited |-> seen, expanded |-> expanded]
        Continue(q, exp) == [hit |-> FALSE, queue |-> q, visited |-> seen, expanded |-> exp]
    IN  IF seen_before(state_key, visited)
        THEN [hit |-> FALSE, queue |-> rest, visited |-> visited, expanded |-> expanded]
        ELSE IF current_symbol \in g.terminals
        THEN IF remaining_input # <<>> /\ remaining_input[1] = current_symbol
             THEN IF Len(remaining_input) = 1 THEN True
                  ELSE Continue(Append(rest, << <<>>, Tail(remaining_input) >>), expanded)
             ELSE Continue(rest, expanded)
        ELSE IF current_symbol = epsilon /\ remaining_input = <<>> THEN True
        ELSE IF current_symbol = <<>>
        THEN IF remaining_input = <<>> THEN True
             ELSE Continue(rest \o RestartEntries(g, SetOrder(g.variables),
                                                  remaining_input),
                           expanded)
        ELSE LET r == ProductionLoop(g, get(g.productions, current_symbol), 1,
                                     remaining_input, <<>>)
                 exp == IF get(g.productions, current_symbol) = <<>> THEN expanded
                        ELSE Append(expanded, state_key)
             IN  IF r.hit
                 THEN [hit |-> TRUE, queue |-> rest, visited |-> seen, expanded |-> exp]
                 ELSE Continue(rest \o r.queued, exp)

\* lines 217-268: the breadth-first loop; it yields the returned boolean,
\* the visited set and the states whose productions were expanded
RECURSIVE SearchLoop(_, _, _, _)
SearchLoop(g, queue, visited, expanded) ==
    IF queue = <<>> THEN [value |-> FALSE, visited |-> visited, expanded |-> expanded]
    ELSE LET r == SearchStep(g, queue, visited, expanded)
         IN  IF r.hit
             THEN [value |-> TRUE, visited |-> r.visited, expanded |-> r.expanded]
             ELSE SearchLoop(g, r.queue, r.visited, r.expanded)

\* lines 211-268: the general search
general_search(g, input_string) ==
    SearchLoop(g, << <<g.start_symbol, list(input_string)>> >>, {}, <<>>)

\* lines 171-177: the answer for the empty string
empty_string_always(g) == TRUE

empty_string_accepted(g) == inList(<<epsilon>>, get(g.productions, g.start_symbol))

\* lines 170-268
parse_string(g, input_string) ==
    IF input_string = <<>>
    THEN [value |-> empty_string_accepted(g), visited |-> {}, expanded |-> <<>>]
    ELSE IF is_anbn_grammar(g)
    THEN [value |-> anbn_fast_path(input_string), visited |-> {}, expanded |-> <<>>]
    ELSE general_search(g, input_string)

\* a call of parse_string by the driver
ParseString(w) ==
    /\ pc = "ready"
    /\ impl = "main"
    /\ LET r == parse_string(self, w)
       IN  ret' = Outcome("parse_string", w, "none",
                          IF r.value THEN "True" ELSE "False",
                          <<>>, <<>>, r.visited, r.expanded, <<>>)
    /\ last' = NoOutcome
    /\ dot' = NoDot
    /\ UNCHANGED <<cfgVars, parse_tree_edges, pc, call, stack, other, switches>>

----------------------------------------------------------------------------
(* get_derivation_steps of src/cfgParser.py.  The while-loop of the greedy *)
(* tracer is run one iteration per step; call.caller tells whether the     *)
(* driver or generate_parse_tree called the method.                        *)

\* lines 405-419: the steps the fast path writes for the grammar
\* S -> a S b | epsilon, by textual replacement in the previous step
RECURSIVE anbn_steps(_, _)
anbn_steps(current, n) ==
    IF n = 0 THEN << replace(current, "S", <<>>) >>
    ELSE LET next == replace(current, "S", <<"a", space, "S", space, "b">>)
         IN  <<next>> \o anbn_steps(next, n - 1)

fast_path_steps(input_string) ==
    << U("S") >> \o anbn_steps(U("S"), count(input_string, "a"))

\* lines 458 and 501: ''.join([s for s in new_form if s in self.terminals])
test_string(new_form) == join(<<>>, filterIn(new_form, terminals))

\* lines 462 and 504: the test a substitution must pass to be taken; the
\* two strategies spell the same prefix test differently
acceptable(strategy, new_form, input_string) ==
    LET t == test_string(new_form)
    IN  IF strategy = "left"
        THEN startswith(input_string, t) /\ Len(t) <= Len(input_string)
        ELSE Len(t) <= Len(input_string) /\ \A i \in DOMAIN t : t[i] = input_string[i]

\* the first production of var, from k on, whose substitution is acceptable
\* (0 when there is none)
RECURSIVE FirstAcceptable(_, _, _, _, _)
FirstAcceptable(strategy, form, var_index, k, input_string) ==
    LET prods == productions[form[var_index]]
    IN  IF k > Len(prods) THEN 0
        ELSE IF acceptable(strategy, Substitute(form, var_index, prods[k]), input_string)
        THEN k
        ELSE FirstAcceptable(strategy, form, var_index, k + 1, input_string)

\* lines 432-435 and 513-516: if not silent: for step in steps:
\* print("=>", step)
printed_steps(silent, steps) == IF silent THEN <<>> ELSE steps

\* the caller gets the value of get_derivation_steps: the driver is done,
\* generate_parse_tree goes on with lines 345-374
Returned(status, steps, printed) ==
    /\ ret' = Outcome(call.op, call.input_string, call.strategy, status, steps,
                      <<>>, {}, <<>>, printed)
    /\ last' = last
    /\ pc' = IF call.caller = "generate_parse_tree" /\ status = "steps"
             THEN "build_tree" ELSE "ready"

MainCall(op, caller, w, strategy, steps, form) ==
    [op |-> op, caller |-> caller, input_string |-> w, strategy |-> strategy,
     steps |-> steps, sentential_form |-> form, iterations |-> 0]

\* lines 392-436 and 478-479
EnterGetDerivationSteps(op, caller, w, strategy) ==
    LET c == MainCall(op, caller, w, strategy, <<>>, <<>>)
    IN  IF is_anbn_grammar(self) /\ parse_string(self, w).value
        THEN /\ call' = [c EXCEPT !.steps = fast_path_steps(w)]
             /\ ret' = Outcome(op, w, strategy, "steps", fast_path_steps(w), <<>>, {}, <<>>,
                               printed_steps(caller # "driver", fast_path_steps(w)))
             /\ pc' = "ready"
        ELSE IF ~parse_string(self, w).value
        THEN /\ call' = c
             /\ ret' = Outcome(op, w, strategy, "None", <<>>, <<>>, {}, <<>>, <<>>)
             /\ pc' = "ready"
        ELSE /\ call' = [c EXCEPT !.steps = << join(U(space), <<start_symbol>>) >>,
                                  !.sentential_form = <<start_symbol>>]
             /\ ret' = NoOutcome
             /\ pc' = "greedy"

GetDerivationStepsMain(w, strategy) ==
    /\ pc = "ready"
    /\ impl = "main"
    /\ EnterGetDerivationSteps("get_derivation_steps", "driver", w, strategy)
    /\ last' = IF ret.op = "get_derivation_steps" THEN ret ELSE NoOutcome
    /\ dot' = NoDot
    /\ UNCHANGED <<cfgVars, parse_tree_edges, stack, other, switches>>

\* lines 438-474 (left) and 481-511 (right), then 518-523: one test of the
\* while condition and one iteration, or the end of the method
GreedyStep ==
    /\ pc = "greedy"
    /\ LET form == call.sentential_form
           var_index == VarIndex(call.strategy, form)
           k == FirstAcceptable(call.strategy, form, var_index, 1, call.input_string)
           new_form == Substitute(form, var_index, productions[form[var_index]][k])
           printed == printed_steps(call.caller # "driver", call.steps)
       IN  IF join(<<>>, form) = call.input_string
           THEN /\ Returned("steps", call.steps, printed)
                /\ call' = call
           ELSE IF var_index = 0
           THEN /\ Returned("None", <<>>, printed)
                /\ call' = call
           ELSE IF form[var_index] \notin DOMAIN productions
           THEN /\ Returned("KeyError", <<>>, <<>>)
                /\ call' = call
           ELSE IF k = 0
           THEN /\ Returned("None", <<>>, printed)
                /\ call' = call
           ELSE IF call.iterations < MaxIter
           THEN /\ call' = [call EXCEPT !.sentential_form = new_form,
                                        !.steps = Append(@, join(U(space), new_form)),
                                        !.iterations = @ + 1]
                /\ UNCHANGED <<pc, ret, last>>
           ELSE /\ pc' = "no_return"
                /\ UNCHANGED <<call, ret, last>>
    /\ UNCHANGED <<cfgVars, parse_tree_edges, stack, dot, other, switches>>

----------------------------------------------------------------------------
(* generate_parse_tree.  The Digraph is the list of its node labels, node  *)
(* number n at index n + 1, and the list of its edges in creation order.   *)

\* the label of the epsilon leaf of the fast path, the 1-character str of
\* the Greek letter
EpsilonLeaf == U("epsilon-letter")

\* src/cfg_parser_base_.py lines 251-257: get_node_id
get_node_id(d, symbol) ==
    IF \E n \in DOMAIN d.nodes : d.nodes[n] = symbol
    THEN [d |-> d, id |-> (CHOOSE n \in DOMAIN d.nodes : d.nodes[n] = symbol) - 1]
    ELSE [d |-> [d EXCEPT !.nodes = Append(@, symbol)], id |-> Len(d.nodes)]

\* src/cfg_parser_base_.py lines 261-264
RECURSIVE add_edges(_, _)
add_edges(d, edges) ==
    IF edges = <<>> THEN d
    ELSE LET p == get_node_id(d, Head(edges)[1])
             c == get_node_id(p.d, Head(edges)[2])
         IN  add_edges([c.d EXCEPT !.edges = Append(@, <<p.id, c.id>>)], Tail(edges))

\* src/cfg_parser_base_.py lines 241-267
GenerateParseTreeBase ==
    /\ pc = "ready"
    /\ impl = "base"
    /\ ret.op = "get_derivation_steps"
    /\ dot' = IF parse_tree_edges = <<>> THEN NoDot
              ELSE add_edges(get_node_id([NoDot EXCEPT !.built = TRUE], start_symbol).d,
                             parse_tree_edges)
    /\ UNCHANGED <<cfgVars, parse_tree_edges, pc, call, stack, ret, last, other, switches>>

\* src/cfgParser.py lines 304-335: build_anbn_tree(parent_id, depth, max_depth)
RECURSIVE build_anbn_tree(_, _, _, _)
build_anbn_tree(d, parent_id, depth, max_depth) ==
    IF depth = max_depth
    THEN [d EXCEPT !.nodes = Append(@, EpsilonLeaf),
                   !.edges = Append(@, <<parent_id, Len(d.nodes)>>)]
    ELSE LET a_id == Len(d.nodes)
             s_id == a_id + 1
             b_id == a_id + 2
             d3 == [d EXCEPT !.nodes = @ \o <<U("a"), U("S"), U("b")>>,
                             !.edges = @ \o << <<parent_id, a_id>>, <<parent_id, s_id>>,
                                               <<parent_id, b_id>> >>]
         IN  build_anbn_tree(d3, s_id, depth + 1, max_depth)

\* src/cfgParser.py lines 363-373: the children created for one expansion
RECURSIVE add_children(_, _, _)
add_children(t, parent_id, symbols) ==
    IF symbols = <<>> THEN t
    ELSE LET child_id == Len(t.d.nodes)
             symbol == Head(symbols)
             t1 == [d |-> [t.d EXCEPT !.nodes = Append(@, symbol),
                                      !.edges = Append(@, <<parent_id, child_id>>)],
                    current_nodes |-> IF symbol \in variables
                                      THEN [x \in DOMAIN t.current_nodes \cup {symbol} |->
                                               IF x = symbol THEN child_id
                                               ELSE t.current_nodes[x]]
                                      ELSE t.current_nodes]
         IN  add_children(t1, parent_id, Tail(symbols))

\* src/cfgParser.py lines 356-374: the first position where two consecutive
\* steps differ, and the children hung below the node of the symbol there
diff_step(t, prev_step, curr_step) ==
    LET m == IF Len(prev_step) < Len(curr_step) THEN Len(prev_step) ELSE Len(curr_step)
        D == {j \in 1..m : prev_step[j] # curr_step[j]}
        j == CHOOSE x \in D : \A y \in D : x <= y
        hi == j + Len(curr_step) - Len(prev_step)
    IN  IF D = {} THEN t
        ELSE IF prev_step[j] \in variables /\ prev_step[j] \in DOMAIN t.current_nodes
        THEN add_children(t, t.current_nodes[prev_step[j]],
                          IF hi >= j THEN SubSeq(curr_step, j, hi) ELSE <<>>)
        ELSE t

\* src/cfgParser.py lines 351-353: for i in range(1, len(steps))
RECURSIVE diff_steps(_, _, _)
diff_steps(t, steps, i) ==
    IF i > Len(steps) THEN t
    ELSE diff_steps(diff_step(t, split(steps[i - 1]), split(steps[i])), steps, i + 1)

RootDot(label) == [built |-> TRUE, nodes |-> <<label>>, edges |-> <<>>]

\* src/cfgParser.py lines 270-344: up to the call of get_derivation_steps
GenerateParseTreeMain(w) ==
    /\ pc = "ready"
    /\ impl = "main"
    /\ last' = NoOutcome
    /\ IF ~parse_string(self, w).value
       THEN /\ ret' = Outcome("generate_parse_tree", w, "left", "None", <<>>, <<>>, {}, <<>>,
                             <<>>)
            /\ dot' = NoDot
            /\ UNCHANGED <<pc, call>>
       ELSE IF is_anbn_grammar(self)
       THEN /\ ret' = Outcome("generate_parse_tree", w, "left", "dot", <<>>, <<>>, {}, <<>>,
                             <<>>)
            /\ dot' = build_anbn_tree(RootDot(U("S")), 0, 0, count(w, "a"))
            /\ UNCHANGED <<pc, call>>
       ELSE /\ dot' = NoDot
            /\ EnterGetDerivationSteps("generate_parse_tree", "generate_parse_tree",
                                       w, "left")
    /\ UNCHANGED <<cfgVars, parse_tree_edges, stack, other, switches>>

\* src/cfgParser.py lines 345-380: the tree from the returned steps
BuildTreeFromSteps ==
    /\ pc = "build_tree"
    /\ dot' = diff_steps([d |-> RootDot(start_symbol),
                          current_nodes |-> (start_symbol :> 0)],
                         ret.steps, 2).d
    /\ ret' = [ret EXCEPT !.status = "dot"]
    /\ pc' = "ready"
    /\ UNCHANGED <<cfgVars, parse_tree_edges, call, stack, last, other, switches>>

Next ==
    \/ \E f \in Files : LoadFromFile(f)
    \/ \E w \in Targets, strategy \in Strategies : GetDerivationStepsBase(w, strategy)
    \/ DeriveEnter
    \/ DeriveTry
    \/ \E w \in Targets : ParseString(w)
    \/ \E w \in Targets, strategy \in Strategies : GetDerivationStepsMain(w, strategy)
    \/ GreedyStep
    \/ GenerateParseTreeBase
    \/ \E w \in Targets : GenerateParseTreeMain(w)
    \/ BuildTreeFromSteps

Spec == Init /\ [][Next]_vars

----------------------------------------------------------------------------
(* The mutators called one by one on a new object, in any order and with   *)
(* any argument, as a client of the class (or load_from_console, line by   *)
(* line) calls them.  call holds the arguments of the last call, ret its   *)
(* returned boolean.                                                       *)

\* bodies stored in self.productions before add_production is called no more
MaxBodies == 2

VariableArgs == {U("S"), U("A"), U("a")}

TerminalArgs == {U("a"), U("b"), U("A")}

HeadArgs == {U("S"), U("a")}

\* a, epsilon, A b, a epsilon, and the two-character symbol ab
BodyArgs == {<<U("a")>>, <<epsilon>>, <<U("A"), U("b")>>, <<U("a"), epsilon>>,
             << <<"a", "b">> >>}

RECURSIVE SumLen(_, _)
SumLen(d, keys) ==
    IF keys = {} THEN 0
    ELSE LET k == CHOOSE x \in keys : TRUE IN Len(d[k]) + SumLen(d, keys \ {k})

\* the number of bodies stored in g.productions
Bodies(g) == SumLen(g.productions, DOMAIN g.productions)

MutatorOps == {"add_variable", "add_terminal", "add_production", "set_start_symbol"}

\* the fields take the values the mutator left and the call returns r.ok
MutatorReturns(op, r) ==
    /\ pc = "new"
    /\ variables' = r.cfg.variables
    /\ terminals' = r.cfg.terminals
    /\ productions' = r.cfg.productions
    /\ start_symbol' = r.cfg.start_symbol
    /\ ret' = Outcome(op, <<>>, "none", IF r.ok THEN "True" ELSE "False",
                      <<>>, <<>>, {}, <<>>, <<>>)
    /\ UNCHANGED <<impl, parse_tree_edges, pc, stack, last, dot, other, switches>>

AddVariable(var) ==
    /\ call' = [op |-> "add_variable", var |-> var]
    /\ MutatorReturns("add_variable", add_variable(self, var))

AddTerminal(term) ==
    /\ call' = [op |-> "add_terminal", term |-> term]
    /\ MutatorReturns("add_terminal", add_terminal(impl, self, term))

AddProduction(head, body) ==
    /\ Bodies(self) < MaxBodies
    /\ call' = [op |-> "add_production", head |-> head, body |-> body]
    /\ MutatorReturns("add_production", add_production(impl, self, head, body))

SetStartSymbol(symbol) ==
    /\ call' = [op |-> "set_start_symbol", symbol |-> symbol]
    /\ MutatorReturns("set_start_symbol", set_start_symbol(self, symbol))

BuildNext ==
    \/ \E var \in VariableArgs : AddVariable(var)
    \/ \E term \in TerminalArgs : AddTerminal(term)
    \/ \E head \in HeadArgs, body \in BodyArgs : AddProduction(head, body)
    \/ \E symbol \in VariableArgs : SetStartSymbol(symbol)

BuildSpec == Init /\ [][BuildNext]_vars

----------------------------------------------------------------------------
(* Two threads on one CFG object of src/cfg_parser_base_.py.  The thread   *)
(* that loaded the grammar calls get_derivation_steps once alone and a     *)
(* second time with the same arguments; a second thread, started after the *)
(* first call returned, calls get_derivation_steps once.  One thread runs  *)
(* at a time (its pc, call, stack, ret and last are the variables of those *)
(* names) and the interpreter may hand over to the other thread between    *)
(* two steps; steps, visited_states and the frames of derive are locals of *)
(* a call, self.parse_tree_edges is a field of the shared object.          *)

\* thread switches allowed in one run
MaxSwitches == 2

ConcTargets == {<<"a">>, <<"a", "b">>}

\* the running thread: 1 loaded the grammar, 2 is the started one
running == 3 - other.id

\* the running thread has a get_derivation_steps call behind it
HasCalled == ret.op = "get_derivation_steps" \/ last.op = "get_derivation_steps"

\* the interpreter hands over to the other thread
Switch ==
    /\ impl = "base"
    /\ pc \in {"ready", "derive"}
    /\ switches < MaxSwitches
    /\ other.pc = "idle" => HasCalled
    /\ other' = Context(running, pc, call, stack, ret, last)
    /\ pc' = IF other.pc = "idle" THEN "ready" ELSE other.pc
    /\ call' = other.call
    /\ stack' = other.stack
    /\ ret' = other.ret
    /\ last' = other.last
    /\ switches' = switches + 1
    /\ UNCHANGED <<cfgVars, parse_tree_edges, dot>>

\* the running thread calls get_derivation_steps(w, strategy)
ThreadCalls(w, strategy) ==
    /\ running = 1 => /\ last.op = "none"
                      /\ ret.op = "none"
                            \/ (w = ret.input_string /\ strategy = ret.strategy)
    /\ running = 2 => ret.op = "none"
    /\ GetDerivationStepsBase(w, strategy)

ConcNext ==
    \/ \E f \in Files : impl = "base" /\ LoadFromFile(f)
    \/ \E w \in ConcTargets, strategy \in Strategies : ThreadCalls(w, strategy)
    \/ DeriveEnter
    \/ DeriveTry
    \/ Switch

ConcSpec == Init /\ [][ConcNext]_vars

----------------------------------------------------------------------------
(* parse_string of src/cfgParser.py with its while-loop run one turn per   *)
(* step, to follow the queue and the visited set while the search runs.    *)

\* turns of "while queue" followed in one call
MaxSearch == 60

\* lines 170-215: the answers given before the loop, or the entry of the loop
SearchEnter(w) ==
    /\ pc = "ready"
    /\ impl = "main"
    /\ IF w = <<>> \/ is_anbn_grammar(self)
       THEN /\ ret' = Outcome("parse_string", w, "none",
                              IF w = <<>>
                              THEN IF empty_string_accepted(self) THEN "True" ELSE "False"
                              ELSE IF anbn_fast_path(w) THEN "True" ELSE "False",
                              <<>>, <<>>, {}, <<>>, <<>>)
            /\ UNCHANGED <<pc, call>>
       ELSE /\ pc' = "search"
            /\ call' = [op |-> "parse_string", input_string |-> w,
                        queue |-> << <<start_symbol, list(w)>> >>,
                        visited |-> {}, expanded |-> <<>>, processed |-> <<>>,
                        iterations |-> 0]
            /\ ret' = NoOutcome
    /\ UNCHANGED <<cfgVars, parse_tree_edges, stack, last, dot, other, switches>>

\* lines 217-268: one test of "while queue" and one turn of the loop, or
\* the return; call.processed lists the states that passed the visited test
SearchIterate ==
    /\ pc = "search"
    /\ LET r == SearchStep(self, call.queue, call.visited, call.expanded)
           state_key == Head(call.queue)
           Return(status, visited, expanded) ==
               /\ ret' = Outcome("parse_string", call.input_string, "none", status,
                                 <<>>, <<>>, visited, expanded, <<>>)
               /\ pc' = "ready"
               /\ call' = NoCall
       IN  IF call.queue = <<>>
           THEN Return("False", call.visited, call.expanded)
           ELSE IF r.hit
           THEN Return("True", r.visited, r.expanded)
           ELSE IF call.iterations < MaxSearch
           THEN /\ call' = [call EXCEPT
                                !.queue = r.queue,
                                !.visited = r.visited,
                                !.expanded = r.expanded,
                                !.processed = IF seen_before(state_key, call.visited)
                                              THEN @ ELSE Append(@, state_key),
                                !.iterations = @ + 1]
                /\ UNCHANGED <<pc, ret>>
           ELSE /\ pc' = "no_return"
                /\ UNCHANGED <<call, ret>>
    /\ UNCHANGED <<cfgVars, parse_tree_edges, stack, last, dot, other, switches>>

SearchNext ==
    \/ \E f \in Files : impl = "main" /\ LoadFromFile(f)
    \/ \E w \in Targets : SearchEnter(w)
    \/ SearchIterate

\* a search that was started takes its next turn
SearchSpec == Init /\ [][SearchNext]_vars /\ WF_vars(SearchIterate)

----------------------------------------------------------------------------
(* The language of a grammar, as the reference the claims compare the code *)
(* with.  A body symbol that is a declared variable is rewritten by its    *)
(* productions, the body [epsilon] is the empty string, a declared         *)
(* terminal stands for itself, and a body with any other symbol (an        *)
(* undeclared one, or epsilon among other symbols) derives no string.      *)
(* Derivation trees are counted up to 2.                                   *)

\* longest sentential form followed when deciding whether the reachable
\* sentential forms are finitely many
MaxForm == 4

Cap2(n) == IF n > 2 THEN 2 ELSE n

\* ways in which body[k..] derives the characters i+1..j of w, given the
\* counts N of the trees found so far
RECURSIVE Ways(_, _, _, _, _, _, _)
RECURSIVE SumWays(_, _, _, _, _, _, _, _)
Ways(g, w, N, body, k, i, j) ==
    IF k > Len(body) THEN (IF i = j THEN 1 ELSE 0)
    ELSE IF body = <<epsilon>> THEN (IF i = j THEN 1 ELSE 0)
    ELSE IF body[k] \in g.variables THEN SumWays(g, w, N, body, k, i, i, j)
    ELSE IF body[k] \in g.terminals /\ i < j /\ U(w[i + 1]) = body[k]
    THEN Ways(g, w, N, body, k + 1, i + 1, j)
    ELSE 0

SumWays(g, w, N, body, k, i, m, j) ==
    IF m > j THEN 0
    ELSE Cap2(N[body[k]][i][m] * Ways(g, w, N, body, k + 1, m, j)
              + SumWays(g, w, N, body, k, i, m + 1, j))

RECURSIVE SumBodies(_, _, _, _, _, _, _)
SumBodies(g, w, N, prods, p, i, j) ==
    IF p > Len(prods) THEN 0
    ELSE Cap2(Ways(g, w, N, prods[p], 1, i, j) + SumBodies(g, w, N, prods, p + 1, i, j))

CountStep(g, w, N) ==
    [X \in g.variables |-> [i \in 0..Len(w) |-> [j \in 0..Len(w) |->
        IF i <= j THEN SumBodies(g, w, N, get(g.productions, X), 1, i, j) ELSE 0]]]

RECURSIVE CountFix(_, _, _)
CountFix(g, w, N) ==
    LET M == CountStep(g, w, N) IN IF M = N THEN N ELSE CountFix(g, w, M)

\* 0, 1 or 2 (two or more) derivation trees of w from the start symbol
TreeCount(g, w) ==
    IF g.start_symbol \notin g.variables THEN 0
    ELSE CountFix(g, w, [X \in g.variables |-> [i \in 0..Len(w) |->
                            [j \in 0..Len(w) |-> 0]]])[g.start_symbol][0][Len(w)]

Derivable(g, w) == TreeCount(g, w) >= 1

\* the forms one substitution away from form
OneStep(g, form) ==
    {Substitute(form, i, g.productions[form[i]][p]) :
        <<i, p>> \in {x \in (DOMAIN form) \X (1..16) :
                         /\ form[x[1]] \in g.variables
                         /\ x[2] <= Len(get(g.productions, form[x[1]]))}}

RECURSIVE FormsFrom(_, _)
FormsFrom(g, forms) ==
    LET more == forms \cup {f \in UNION {OneStep(g, x) : x \in forms} : Len(f) <= MaxForm}
    IN  IF more = forms THEN forms ELSE FormsFrom(g, more)

\* the sentential forms reachable from the start symbol are finitely many
\* and none is longer than MaxForm
FiniteForms(g) ==
    LET forms == FormsFrom(g, {<<g.start_symbol>>})
    IN  \A x \in forms : \A f \in OneStep(g, x) : Len(f) <= MaxForm

----------------------------------------------------------------------------
(* Readings of the state that the claims share *)

\* the method op has returned (or raised) and nothing runs
Done(op) == pc = "ready" /\ ret.op = op

BaseTrace == impl = "base" /\ Done("get_derivation_steps")

MainTrace == impl = "main" /\ Done("get_derivation_steps")

LastOf(l) == l[Len(l)]

\* the symbols of a list that are terminals by their character class
RECURSIVE TerminalSymbols(_, _)
TerminalSymbols(im, l) ==
    IF l = <<>> THEN <<>>
    ELSE (IF validate_terminal(im, Head(l)) THEN <<Head(l)>> ELSE <<>>)
            \o TerminalSymbols(im, Tail(l))

\* the grammar S -> a S b | epsilon, declared in that order, start S
IsExample1Grammar ==
    /\ start_symbol = U("S")
    /\ DOMAIN productions = {U("S")}
    /\ productions[U("S")] = << list(<<"a", "S", "b">>), <<epsilon>> >>

\* w = a^n b^n
IsAnBn(w) ==
    /\ Len(w) % 2 = 0
    /\ \A i \in DOMAIN w : w[i] = IF 2 * i <= Len(w) THEN "a" ELSE "b"

\* the steps S, a S b, ..., a^n S b^n, a^n b^n with single spaces
Example1Steps(w) ==
    LET n == Len(w) \div 2
        form(k) == [i \in 1..(2 * k + 1) |->
                       IF i <= k THEN U("a") ELSE IF i = k + 1 THEN U("S") ELSE U("b")]
    IN  [k \in 1..(n + 1) |-> join(U(space), form(k - 1))] \o << join(U(space), list(w)) >>

\* the grammar A -> A | a, declared in that order, start A
IsExample4Grammar ==
    /\ start_symbol = U("A")
    /\ DOMAIN productions = {U("A")}
    /\ productions[U("A")] = << <<U("A")>>, <<U("a")>> >>

\* w holds a character that is no declared terminal
Foreign(w) == \E i \in DOMAIN w : U(w[i]) \notin terminals

NoDuplicates(l) == \A i, j \in DOMAIN l : l[i] = l[j] => i = j

(* the graph d as a tree *)
Children(d, n) == {e \in DOMAIN d.edges : d.edges[e][1] = n}

Parents(d, n) == {e \in DOMAIN d.edges : d.edges[e][2] = n}

\* node 0 is reached from n by following parent edges at most fuel times
RECURSIVE ReachesRoot(_, _, _)
ReachesRoot(d, n, fuel) ==
    \/ n = 0
    \/ /\ fuel > 0
       /\ \E e \in Parents(d, n) : ReachesRoot(d, d.edges[e][1], fuel - 1)

\* a rooted tree: the root has no parent, every other node exactly one,
\* and no node is its own ancestor
IsRootedTree(d) ==
    /\ d.nodes # <<>>
    /\ Parents(d, 0) = {}
    /\ \A n \in 1..(Len(d.nodes) - 1) : Cardinality(Parents(d, n)) = 1
    /\ \A n \in 0..(Len(d.nodes) - 1) : ReachesRoot(d, n, Len(d.nodes))

\* the leaves below node n, left to right (children in edge order), an
\* epsilon leaf counted as the empty string; d is a rooted tree
RECURSIVE Yield(_, _)
RECURSIVE YieldOf(_, _)
Yield(d, n) ==
    IF Children(d, n) = {}
    THEN (IF d.nodes[n + 1] \in {epsilon, EpsilonLeaf} THEN <<>> ELSE d.nodes[n + 1])
    ELSE YieldOf(d, [k \in 1..Cardinality(Children(d, n)) |->
                        d.edges[CHOOSE e \in Children(d, n) :
                                   Cardinality({x \in Children(d, n) : x < e}) = k - 1][2]])

YieldOf(d, kids) ==
    IF kids = <<>> THEN <<>> ELSE Yield(d, Head(kids)) \o YieldOf(d, Tail(kids))

\* a parse tree has been built for the outcome ret of a successful trace
TreeBuilt ==
    \/ impl = "base" /\ Done("get_derivation_steps") /\ ret.status = "steps" /\ dot.built
    \/ impl = "main" /\ Done("generate_parse_tree") /\ ret.status = "dot"

----------------------------------------------------------------------------
(* The claims *)

\* C1 (as stated): parse_string(w) returns True if and only if w is
\* derivable from the start symbol by the grammar's productions.
C1_Membership ==
    (impl = "main" /\ Done("parse_string"))
        => ((ret.status = "True") <=> Derivable(self, ret.input_string))

\* C2 (as stated): for a grammar with finitely many reachable sentential
\* forms, get_derivation_steps of base returns a step list if and only if
\* the target, the empty string included, is derivable.
C2_BacktrackingDecides ==
    (BaseTrace /\ FiniteForms(self))
        => ((ret.status = "steps") <=> Derivable(self, ret.input_string))

\* C3 (as stated): get_derivation_steps of main returns a step list if and
\* only if parse_string returns True on the same grammar and target.
C3_TracerAgrees ==
    /\ MainTrace
          => ((ret.status = "steps") <=> parse_string(self, ret.input_string).value)
    /\ (impl = "main" /\ pc = "no_return" /\ call.op = "get_derivation_steps")
          => ~parse_string(self, call.input_string).value

\* C4 (as stated): the last step of a returned step list holds no variable
\* and its terminal symbols concatenate to the target.
C4_RoundTrip ==
    (Done("get_derivation_steps") /\ ret.status = "steps")
        => LET final == split(LastOf(ret.steps))
           IN  /\ \A i \in DOMAIN final : final[i] \notin variables
               /\ join(<<>>, TerminalSymbols(impl, final)) = ret.input_string

\* C5 (as stated): the graph built by generate_parse_tree for a successful
\* trace is a rooted ordered tree whose leaves, left to right, epsilon
\* leaves counted as empty, concatenate to the target.
C5_TreeConsistency ==
    TreeBuilt => (IsRootedTree(dot) /\ Yield(dot, 0) = ret.input_string)

\* C6: two calls in a row of base's get_derivation_steps with the same
\* target and strategy end the same way, with identical step sequences and
\* identical parse_tree_edges.
C6_Idempotent ==
    (BaseTrace /\ last.op = "get_derivation_steps"
               /\ last.input_string = ret.input_string /\ last.strategy = ret.strategy)
        => (ret.status = last.status /\ ret.steps = last.steps /\ ret.edges = last.edges)

\* C6 witness: a second call with the arguments of the first has returned
\* steps and left edges
C6_Witness ==
    /\ BaseTrace /\ last.op = "get_derivation_steps"
    /\ last.input_string = ret.input_string /\ last.strategy = ret.strategy
    /\ ret.status = "steps" /\ ret.edges # <<>> /\ Len(ret.steps) > 2

\* C7 (as stated): when the target has exactly one derivation tree, the
\* left and the right call both return steps, with the same last step.
C7_LeftRightAgree ==
    (Done("get_derivation_steps") /\ last.op = "get_derivation_steps"
        /\ last.input_string = ret.input_string /\ last.strategy # ret.strategy
        /\ TreeCount(self, ret.input_string) = 1)
        => (/\ ret.status = "steps" /\ last.status = "steps"
            /\ LastOf(ret.steps) = LastOf(last.steps))

\* C8 (as stated): for S -> a S b | epsilon and the target a^n b^n the
\* leftmost call returns exactly S, a S b, ..., a^n S b^n, a^n b^n.
C8_Example1 ==
    (Done("get_derivation_steps") /\ ret.strategy = "left" /\ IsExample1Grammar
        /\ IsAnBn(ret.input_string))
        => (ret.status = "steps" /\ ret.steps = Example1Steps(ret.input_string))

\* C9: in base, with A -> A | a and the target a, the call under either
\* strategy ends, and ends with steps; and in every search no
\* (form, matched-length) state has its productions expanded twice: a call
\* of derive on a recorded state returns False at once.
C9_CyclePruning ==
    /\ [](impl = "base" /\ pc \in {"derive", "ready"} /\ call.op = "get_derivation_steps"
             => NoDuplicates(call.expanded))
    /\ []((BaseTrace /\ IsExample4Grammar /\ ret.input_string = <<"a">>)
             => ret.status = "steps")
    /\ (pc = "derive" /\ IsExample4Grammar /\ call.input_string = <<"a">>) ~> (pc = "ready")

\* C9 witness: the search of a with A -> A | a has returned steps after a
\* call of derive found its state, the form A, recorded already
C9_Witness ==
    /\ BaseTrace /\ IsExample4Grammar /\ ret.input_string = <<"a">>
    /\ ret.status = "steps"
    /\ ret.edges = << <<U("A"), U("A")>>, <<U("A"), U("a")>> >>
    /\ ret.expanded = << <<U("A"), 0>> >>

\* C10 (as stated): a target with a character outside the terminal set is
\* answered not derivable at once: no production is expanded.
C10_ForeignRejectedAtOnce ==
    ((\/ impl = "main" /\ Done("parse_string")
      \/ BaseTrace) /\ Foreign(ret.input_string))
        => (ret.status \in {"False", "None"} /\ ret.expanded = <<>>)

\* the grammar whose only production is S -> a, start S
IsExample3Grammar ==
    /\ start_symbol = U("S")
    /\ \A X \in DOMAIN productions :
          productions[X] = IF X = U("S") THEN << <<U("a")>> >> ELSE <<>>

\* a query op on the target w has ended
Answered(w) ==
    /\ pc = "ready"
    /\ ret.op \in {"parse_string", "get_derivation_steps", "generate_parse_tree"}
    /\ ret.input_string = w

\* C11: a query on the empty string succeeds only if the start symbol
\* derives the empty string; with the single production S -> a it is
\* answered False (parse_string) or None (get_derivation_steps).
C11_EmptyTarget ==
    Answered(<<>>)
        => /\ ret.status \in {"True", "steps", "dot"} => Derivable(self, <<>>)
           /\ IsExample3Grammar => ret.status \in {"False", "None"}

\* C11 witness: parse_string has answered the empty string True for a
\* grammar that derives it
C11_Witness ==
    /\ impl = "main" /\ Answered(<<>>) /\ ret.op = "parse_string"
    /\ ret.status = "True" /\ Derivable(self, <<>>)

\* C12 (as stated): a returned step list starts with the bare start symbol
\* and ends with the target, its symbols separated by single spaces (the
\* empty str for the empty target).
C12_StepEnds ==
    (Done("get_derivation_steps") /\ ret.status = "steps")
        => /\ ret.steps[1] = start_symbol
           /\ LastOf(ret.steps) = join(U(space), list(ret.input_string))

\* C13 (as stated): a get_derivation_steps call that does not return steps
\* returns None and surfaces no step, neither in the returned value nor in
\* the printed lines.
C13_NoPartialOutput ==
    (Done("get_derivation_steps") /\ ret.status # "steps")
        => (ret.status = "None" /\ ret.steps = <<>> /\ ret.printed = <<>>)

\* C14 (as stated): in base, after a get_derivation_steps call that
\* returned None the edge list parse_tree_edges is empty, and a following
\* generate_parse_tree builds no graph.
C14_NoTreeOnFailure ==
    (BaseTrace /\ ret.status = "None") => (parse_tree_edges = <<>> /\ ~dot.built)

\* a mutator has returned and no file was loaded
Mutated(op) == pc = "new" /\ ret.op = op

\* the symbols of the stored bodies and the heads that have a body
DeclaredOnly(g) ==
    \A X \in DOMAIN g.productions :
        /\ g.productions[X] # <<>> => X \in g.variables
        /\ \A k \in DOMAIN g.productions[X] : \A i \in DOMAIN g.productions[X][k] :
              g.productions[X][k][i] \in g.variables \cup g.terminals \cup {epsilon}

\* C15 (as stated): add_production returns True only for a declared head
\* and declared body symbols (or epsilon), so every symbol of every stored
\* body is a variable, a terminal or epsilon and every head that has a body
\* is a variable.
C15_DeclaredSymbolsOnly ==
    /\ DeclaredOnly(self)
    /\ (Mutated("add_production") /\ ret.status = "True")
          => /\ call.head \in variables
             /\ \A i \in DOMAIN call.body :
                   call.body[i] \in variables \cup terminals \cup {epsilon}

\* C16: a mutator call that returns False leaves variables, terminals,
\* productions (keys, bodies and their order) and start_symbol as they were
\* before the call.
C16_RejectionIsNoOp ==
    [][(ret'.op \in MutatorOps /\ ret'.status = "False")
          => UNCHANGED <<variables, terminals, productions, start_symbol>>]_vars

\* C16 witness: add_variable has refused its argument on a model that
\* holds a variable, a terminal, a body and a start symbol
C16_Witness ==
    /\ Mutated("add_variable") /\ ret.status = "False"
    /\ variables # {} /\ terminals # {} /\ Bodies(self) > 0 /\ start_symbol # None

\* C17 (as stated): start_symbol is unset or a member of variables, and
\* once set no later mutator call changes it.
C17_StartSetOnce ==
    /\ [](start_symbol = None \/ start_symbol \in variables)
    /\ [][start_symbol # None => start_symbol' = start_symbol]_vars

\* the four parts the completeness test of the spec names
Complete(g) ==
    /\ g.variables # {}
    /\ g.terminals # {}
    /\ \E X \in DOMAIN g.productions : g.productions[X] # <<>>
    /\ g.start_symbol # None

\* C18 (as stated): load returns True if and only if variables and
\* terminals are non-empty, at least one production body was added and the
\* start symbol is set.
C18_CompletenessCheck ==
    pc # "new" => (pc # "failed" <=> Complete(self))

\* a body that holds epsilon together with another symbol
Mixed(body) == Len(body) > 1 /\ inList(epsilon, body)

\* C19 (as stated): no stored body holds epsilon together with another
\* symbol, and no sentential form of a running search holds the symbol
\* epsilon.
C19_EpsilonNeverMixed ==
    /\ \A X \in DOMAIN productions : \A k \in DOMAIN productions[X] :
          ~Mixed(productions[X][k])
    /\ \A n \in DOMAIN stack : ~inList(epsilon, stack[n].current_symbols)
    /\ pc = "greedy" => ~inList(epsilon, call.sentential_form)

\* C20 (as stated): a get_derivation_steps call of base made while another
\* thread's call is in flight returns the steps and ends with the edge list
\* of the same call run alone (the thread's previous call with the same
\* arguments), and no call changes variables, terminals, productions or
\* start_symbol.
C20_ConcurrentQueries ==
    /\ []((BaseTrace /\ last.op = "get_derivation_steps")
             => (ret.status = last.status /\ ret.steps = last.steps
                                         /\ ret.edges = last.edges))
    /\ [][pc # "new" => UNCHANGED <<variables, terminals, productions, start_symbol>>]_vars

\* C21 (as stated): for a grammar the hard-coded test recognises and a
\* non-empty input, the answer of the character-counting fast path of
\* parse_string is the answer of the breadth-first loop that follows it.
C21_FastPathEquivalence ==
    (impl = "main" /\ Done("parse_string") /\ is_anbn_grammar(self)
        /\ ret.input_string # <<>>)
        => /\ ret.status = (IF anbn_fast_path(ret.input_string) THEN "True" ELSE "False")
           /\ anbn_fast_path(ret.input_string)
                 <=> general_search(self, ret.input_string).value

\* the derivation path is the start symbol followed by the form of every
\* attempt that is still open, one per frame of derive
PathMirrorsStack ==
    /\ Len(call.steps) = Len(stack)
    /\ \A n \in DOMAIN stack : call.steps[n] = join(U(space), stack[n].current_symbols)

\* derive() is called for the next production, in declaration order, of
\* the variable the top frame chose
AttemptsNext ==
    LET top == stack[Len(stack)]
    IN  /\ top.at = "loop"
        /\ Len(stack') = Len(stack) + 1
        /\ SubSeq(stack', 1, Len(stack)) = stack
        /\ stack'[Len(stack')].current_symbols =
              Substitute(top.current_symbols, top.i,
                         productions[top.current_symbols[top.i]][top.k])

\* a call of derive returned False: its caller has the path it had before
\* the attempt and goes on with the production after the one that failed
FailureUndone ==
    /\ Len(stack') = Len(stack) - 1
    /\ stack' = [SubSeq(stack, 1, Len(stack) - 1) EXCEPT ![Len(stack) - 1].k = @ + 1]
    /\ call'.steps = SubSeq(call.steps, 1, Len(stack'))

\* the top frame goes from its entry tests to its first production
StartsLoop ==
    LET top == stack[Len(stack)]
    IN  /\ top.at = "enter"
        /\ stack' = [stack EXCEPT ![Len(stack)] =
                        [top EXCEPT !.at = "loop", !.k = 1,
                                    !.i = VarIndex(call.strategy, top.current_symbols)]]
        /\ call'.steps = call.steps

\* C22: in base the productions of the chosen variable are attempted in the
\* order they were added, production k + 1 only after the attempt of
\* production k returned False; a returned True ends the search; and after
\* a failed attempt the derivation path is what it was before the attempt.
C22_OrderAndUndo ==
    /\ [](impl = "base" /\ pc = "derive" => PathMirrorsStack)
    /\ [](impl = "base" /\ pc = "ready" => stack = <<>>)
    /\ [][(impl = "base" /\ pc = "derive" /\ pc' = "derive")
             => (AttemptsNext \/ FailureUndone \/ StartsLoop)]_vars

\* C22 witness: the first production of a variable was attempted and
\* undone, and the attempt of its second production is open
C22_Witness ==
    /\ impl = "base" /\ pc = "derive" /\ Len(stack) >= 2
    /\ stack[Len(stack) - 1].at = "loop" /\ stack[Len(stack) - 1].k = 2
    /\ PathMirrorsStack

\* the form cur comes from the form prev by one substitution at the
\* variable the strategy selects
ValidStep(prev, cur, strategy) ==
    LET i == VarIndex(strategy, prev)
    IN  /\ i # 0
        /\ \E k \in DOMAIN get(productions, prev[i]) :
              cur = Substitute(prev, i, productions[prev[i]][k])

\* C23 (as stated): in a returned step list every step after the first
\* comes from the step before it by replacing one variable occurrence, the
\* first one under 'left' and the last one under 'right', with the body of
\* one of its productions; no step repeats the step before it without a
\* substitution.
C23_ValidDerivation ==
    (Done("get_derivation_steps") /\ ret.status = "steps")
        => \A n \in 2..Len(ret.steps) :
              ValidStep(split(ret.steps[n - 1]), split(ret.steps[n]), ret.strategy)

\* the (form, matched-length) state of a frame of derive
StateOf(frame) ==
    <<join(U(space), frame.current_symbols),
      Len(call.input_string) - Len(list(call.input_string))>>

\* C24: within one call of base's get_derivation_steps the visited set only
\* grows, a state is in it before any of its productions is tried, and no
\* state has its productions expanded twice.
C24_MemoizedFailure ==
    /\ [][(impl = "base" /\ pc = "derive" /\ pc' = "derive")
             => call.visited_states \subseteq call'.visited_states]_vars
    /\ []((impl = "base" /\ pc = "derive")
             => \A n \in DOMAIN stack :
                   stack[n].at = "loop" => StateOf(stack[n]) \in call.visited_states)
    /\ []((impl = "base" /\ call.op = "get_derivation_steps")
             => /\ NoDuplicates(call.expanded)
                /\ \A n \in DOMAIN call.expanded :
                      call.expanded[n] \in call.visited_states)

\* C24 witness: an attempt has failed and its sibling is about to be tried
\* with the failed state kept in the visited set
C24_Witness ==
    /\ impl = "base" /\ pc = "derive" /\ stack # <<>>
    /\ stack[Len(stack)].at = "loop" /\ stack[Len(stack)].k = 2
    /\ Cardinality(call.visited_states) > Len(stack)

\* the terminals a form starts with, up to its first other symbol
RECURSIVE LeadingTerminals(_)
LeadingTerminals(form) ==
    IF form = <<>> \/ Head(form) \notin terminals THEN <<>>
    ELSE <<Head(form)>> \o LeadingTerminals(Tail(form))

\* the terminals of form already rule the target w out
Disagrees(form, w) ==
    \/ ~startswith(w, join(<<>>, LeadingTerminals(form)))
    \/ Len(filterIn(form, terminals)) > Len(w)

\* C25 (as stated): the backtracking search expands no variable of a form
\* whose terminals already disagree with the target, and for the grammar
\* S -> a S b | epsilon every search ends by returning steps or None.
C25_PrefixPruning ==
    /\ (impl = "base" /\ pc = "derive")
          => \A n \in DOMAIN stack :
                stack[n].at = "loop"
                    => ~Disagrees(stack[n].current_symbols, call.input_string)
    /\ (Done("get_derivation_steps") /\ IsExample1Grammar)
          => ret.status \in {"steps", "None"}

\* the edges of the substitution that leads from the form prev to the form
\* cur: from the substituted variable to each symbol of the body used
SubstitutionEdges(prev, cur, strategy) ==
    LET i == VarIndex(strategy, prev)
        K == {k \in DOMAIN get(productions, prev[i]) :
                 cur = Substitute(prev, i, productions[prev[i]][k])}
    IN  IF i = 0 \/ K = {} THEN <<>>
        ELSE EdgesOf(prev[i], productions[prev[i]][CHOOSE k \in K : \A j \in K : k <= j])

\* the edges of the substitutions of a step list, from step n on, in order
RECURSIVE DerivationEdges(_, _, _)
DerivationEdges(steps, n, strategy) ==
    IF n > Len(steps) THEN <<>>
    ELSE SubstitutionEdges(split(steps[n - 1]), split(steps[n]), strategy)
            \o DerivationEdges(steps, n + 1, strategy)

\* C26 (as stated): after a successful get_derivation_steps of base,
\* parse_tree_edges holds, for each substitution of the returned derivation
\* in order, one edge from the substituted variable to each symbol of the
\* body used, and nothing else.
C26_EdgesMirrorDerivation ==
    (BaseTrace /\ ret.status = "steps")
        => parse_tree_edges = DerivationEdges(ret.steps, 2, ret.strategy)

\* C27 (as stated): the graph built by generate_parse_tree is a rooted tree
\* whose root is labelled with the start symbol: every other node has one
\* parent, no node is its own ancestor, and no node stands for two
\* occurrences of a symbol (it would have two incoming edges).
C27_ParseTreeShape ==
    TreeBuilt => (dot.nodes # <<>> /\ dot.nodes[1] = start_symbol /\ IsRootedTree(dot))

\* tail of the list l
IsSuffix(t, l) == Len(t) <= Len(l) /\ SubSeq(l, Len(l) - Len(t) + 1, Len(l)) = t

\* C28: parse_string always terminates: a search that entered the loop
\* returns, every remaining input in the queue is a suffix of the input
\* string, and no (current symbol, remaining input) state is processed twice
C28_SearchTerminates ==
    /\ [](pc = "search" =>
            /\ \A i \in DOMAIN call.queue :
                   IsSuffix(call.queue[i][2], list(call.input_string))
            /\ NoDuplicates(call.processed)
            /\ \A i \in DOMAIN call.processed : call.processed[i] \in call.visited)
    /\ [](pc # "no_return")
    /\ (pc = "search") ~> (pc = "ready" /\ ret.op = "parse_string")

\* a running search finds at the head of its queue a state it has
\* processed before
C28_Witness ==
    /\ pc = "search"
    /\ call.queue # <<>>
    /\ inList(Head(call.queue), call.processed)

\* C29: the greedy tracer always terminates.  The next sentential form is
\* computed from the current one alone, so a loop that terminates never
\* comes back to a form it has written before, and it never runs on past
\* the turns followed
C29_GreedyTerminates ==
    (impl = "main" /\ pc \in {"greedy", "no_return"} /\ call.op = "get_derivation_steps")
        => (NoDuplicates(call.steps) /\ pc # "no_return")

\* C30: after any sequence of mutator calls every member of variables is a
\* key of productions, so that the lookup productions[sym] of the search is
\* defined for every sym in variables, and an add_variable call for a symbol
\* that is a key already leaves productions as it was
C30_ProductionsCoverVariables ==
    /\ [](\A sym \in variables : sym \in DOMAIN productions)
    /\ [][(call'.op = "add_variable" /\ call'.var \in DOMAIN productions)
             => productions' = productions]_vars

\* add_variable was called again for the start symbol, which had a stored
\* body by then
C30_Witness ==
    /\ Mutated("add_variable") /\ ret.status = "True"
    /\ start_symbol = call.var
    /\ get(productions, call.var) # <<>>

\* the running method takes its next step
FairSpec == Spec /\ WF_vars(DeriveEnter) /\ WF_vars(DeriveTry) /\ WF_vars(GreedyStep)
                 /\ WF_vars(BuildTreeFromSteps)

====
